---- MODULE Spec2Model ----
(***************************************************************************)
(* Model of src/lib.js (deploy-static-site): s3WebsiteFromDirectory sets   *)
(* the bucket policy, globs the root directory, lstat-s every match under  *)
(* async.mapLimit and hands the resulting list to async.eachLimit, which   *)
(* runs executeTaskOnS3 on every element.                                  *)
(*                                                                         *)
(* One action is one callback of the Node event loop, run to completion:   *)
(* everything a callback calls synchronously is part of its action.  The   *)
(* history variables (policyCalls, statCalls, dispatched, uploads, the     *)
(* ...Cb sequences) record calls made and callbacks invoked.               *)
(*                                                                         *)
(* The functions are modelled as they are written.  The object literal of  *)
(* module.exports (lines 157-164) is not modelled: the run starts at a     *)
(* direct call of s3WebsiteFromDirectory.                                  *)
(***************************************************************************)
EXTENDS Integers, Sequences, FiniteSets, TLC

\* src/lib.js:9
MAX_PARALLEL == 25

\* Largest number of paths the glob returns in the model.
MaxPaths == 34
\* A stat may call back while at most this many older stats are outstanding.
MaxOvertake == 2

NoErr == "null"

\* Paths are sequences of segment names; names are numbers, -1 is "..".
rootPath == <<0>>
DotDot == -1

\* JavaScript's undefined, in the shape of a task so that lists hold both.
undefined == [type |-> "undefined", localPath |-> <<>>, remotePath |-> <<>>]

VARIABLES
    bucket,         \* the bucketName argument of the run
    started,        \* s3WebsiteFromDirectory has been called
    policyPending,  \* s3.putBucketPolicy is outstanding
    policyCalls,    \* number of s3.putBucketPolicy calls issued
    policyReqs,     \* parameters of the s3.putBucketPolicy calls issued
    policyCb,       \* errors passed to configureWebsiteBucket's done
    globPending,    \* glob is outstanding
    globCalls,      \* number of glob calls issued
    globRet,        \* "none", "ok" or the error glob called back with
    entries,        \* what glob matched: sequence of [path, kind]
    next,           \* async.mapLimit: number of elements handed to the iteratee
    statRunning,    \* indices whose fs.lstat is outstanding
    lost,           \* indices whose makeLocalTask callback threw
    results,        \* async.mapLimit: results array (index -> value)
    statCalls,      \* indices in the order fs.lstat was called
    planCb,         \* invocations of buildLocalExecutionPlan's done
    dispatched,     \* invocations of executeTaskOnS3: [idx, task, outcome]
    uploads,        \* parameters of the s3.upload calls issued
    execCb,         \* errors passed to async.eachLimit's final callback
    uploadCb,       \* errors passed to uploadDirToS3's done
    doneCalls,      \* errors passed to the caller's done
    thrown,         \* exceptions thrown out of a callback
    halted          \* the process ended on an uncaught exception

vars == <<bucket, started, policyPending, policyCalls, policyReqs, policyCb,
          globPending, globCalls,
          globRet, entries, next, statRunning, lost, results, statCalls,
          planCb, dispatched, uploads, execCb, uploadCb,
          doneCalls, thrown, halted>>

planVars == <<entries, next, statRunning, lost, results, statCalls>>
upVars == <<planCb, dispatched, uploads, execCb, uploadCb, doneCalls, thrown, halted>>

(***************************************************************************)
(* The environment: what the glob matches and what lstat says of it.       *)
(***************************************************************************)
Sizes == {0, 1, 3, MAX_PARALLEL, MaxPaths}
Patterns == {"files", "dirs", "mixed", "rootFile", "statFail"}

EntryAt(pat, n, i) ==
    CASE pat = "files"    -> [path |-> <<0, i>>, kind |-> "file"]
      [] pat = "dirs"     -> [path |-> IF i = 1 THEN rootPath ELSE <<0, i>>,
                              kind |-> "dir"]
      [] pat = "mixed"    -> IF i = 1 THEN [path |-> rootPath, kind |-> "dir"]
                             ELSE IF i % 2 = 0
                                  THEN [path |-> <<0, i>>, kind |-> "dir"]
                                  ELSE [path |-> <<0, i - 1, i>>, kind |-> "file"]
      [] pat = "rootFile" -> IF i = 1 THEN [path |-> rootPath, kind |-> "file"]
                             ELSE [path |-> <<0, i>>, kind |-> "dir"]
      [] pat = "statFail" -> [path |-> <<0, i>>,
                              kind |-> IF i = (n + 1) \div 2 THEN "gone" ELSE "file"]

GlobResults == { [i \in 1..n |-> EntryAt(pat, n, i)] : pat \in Patterns, n \in Sizes }

\* The bucket names a run is called with.
BucketNames == {"my-bucket", "b"}

(***************************************************************************)
(* Pure helpers.                                                           *)
(***************************************************************************)
RECURSIVE CommonPrefix(_, _, _)
CommonPrefix(a, b, k) ==
    IF k < Len(a) /\ k < Len(b) /\ a[k + 1] = b[k + 1]
    THEN CommonPrefix(a, b, k + 1) ELSE k

\* path.relative(from, to)
pathRelative(from, to) ==
    LET c == CommonPrefix(from, to, 0)
    IN [i \in 1..(Len(from) - c) |-> DotDot] \o SubSeq(to, c + 1, Len(to))

\* fs.lstat: the (err, stat) pair it calls back with
lstat(e) ==
    IF e.kind = "gone" THEN [err |-> "StatError", hasStat |-> FALSE, isFile |-> FALSE]
    ELSE [err |-> NoErr, hasStat |-> TRUE, isFile |-> (e.kind = "file")]

\* makeLocalTask without the isFile() test: a task for every entry.
makeLocalTask_NoFileCheck(root, e) ==
    LET st == lstat(e)
    IN IF ~st.hasStat THEN [threw |-> TRUE, val |-> undefined]
       ELSE [threw |-> FALSE,
             val |-> [type |-> "file", localPath |-> e.path,
                      remotePath |-> pathRelative(root, e.path)]]

\* makeLocalTask's lstat callback: what it does with (err, stat).
\* err is never looked at; stat.isFile() on an undefined stat throws a
\* TypeError (threw), otherwise done(null, val) is called: done is never
\* given an error.
makeLocalTask(root, e) ==
    LET st == lstat(e)
    IN IF ~st.hasStat THEN [threw |-> TRUE, val |-> undefined]
       ELSE IF ~st.isFile THEN [threw |-> FALSE, val |-> undefined]
       ELSE [threw |-> FALSE,
             val |-> [type |-> "file", localPath |-> e.path,
                      remotePath |-> pathRelative(root, e.path)]]

\* mime.lookup: the content type of a path, by its last segment (the files
\* named by an odd number have a known extension).
mimeLookup(p) ==
    IF p # <<>> /\ p[Len(p)] % 2 = 1 THEN "text/html" ELSE "application/octet-stream"

\* The value of the function-local `mime` when line 56 reads it: the var
\* declaration is hoisted, so the local shadows the module and is undefined.
mimeAtLookup == "undefined"

\* executeTaskOnS3 with the guard of line 53 reduced to `!task`.
executeTaskOnS3_NoRootCheck(bucketName, task) ==
    IF task = undefined
    THEN [outcome |-> "done", req |-> <<>>]
    ELSE IF mimeAtLookup = "undefined"
    THEN [outcome |-> "throw", req |-> <<>>]
    ELSE [outcome |-> "upload",
          req |-> <<[Bucket |-> bucketName, Key |-> task.remotePath,
                     ACL |-> "public-read",
                     ContentType |-> mimeLookup(task.localPath),
                     Body |-> [readStream |-> task.localPath]]>>]

\* executeTaskOnS3 with the guard of line 53 reduced to the remotePath test:
\* reading task.remotePath of an undefined task throws.
executeTaskOnS3_NoTaskCheck(bucketName, task) ==
    IF task # undefined /\ task.remotePath = <<>>
    THEN [outcome |-> "done", req |-> <<>>]
    ELSE IF task = undefined \/ mimeAtLookup = "undefined"
    THEN [outcome |-> "throw", req |-> <<>>]
    ELSE [outcome |-> "upload",
          req |-> <<[Bucket |-> bucketName, Key |-> task.remotePath,
                     ACL |-> "public-read",
                     ContentType |-> mimeLookup(task.localPath),
                     Body |-> [readStream |-> task.localPath]]>>]

\* executeTaskOnS3 up to the point where it returns to async.eachLimit:
\* "done" (done() called synchronously), "throw" (TypeError at line 56) or
\* "upload" (s3.upload issued, its callback outstanding).
executeTaskOnS3(bucketName, task) ==
    IF task = undefined \/ task.remotePath = <<>>
    THEN [outcome |-> "done", req |-> <<>>]
    ELSE IF mimeAtLookup = "undefined"
    THEN [outcome |-> "throw", req |-> <<>>]
    ELSE [outcome |-> "upload",
          req |-> <<[Bucket |-> bucketName, Key |-> task.remotePath,
                     ACL |-> "public-read",
                     ContentType |-> mimeLookup(task.localPath),
                     Body |-> [readStream |-> task.localPath]]>>]

\* async.eachLimit calling the iteratee a second time for an element whose
\* first call failed.
RECURSIVE eachLimit_Retry(_, _, _, _)
eachLimit_Retry(tasks, limit, i, st) ==
    IF limit <= 0 THEN [st EXCEPT !.result = "ok"]
    ELSE IF i > Len(tasks)
    THEN [st EXCEPT !.result = IF st.running = 0 THEN "ok" ELSE "pending"]
    ELSE IF st.running >= limit THEN st
    ELSE LET r == executeTaskOnS3(bucket, tasks[i])
             entry == [idx |-> i, task |-> tasks[i], outcome |-> r.outcome]
             logged == [st EXCEPT !.log = Append(st.log, entry)]
         IN CASE r.outcome = "done"   -> eachLimit_Retry(tasks, limit, i + 1, logged)
              [] r.outcome = "throw"  ->
                   [logged EXCEPT !.log = Append(logged.log, entry), !.result = "throw"]
              [] r.outcome = "upload" ->
                   eachLimit_Retry(tasks, limit, i + 1,
                                   [logged EXCEPT !.running = st.running + 1,
                                                  !.ups = st.ups \o r.req])

\* async.eachLimit(tasks, limit, executeTaskOnS3, cb), from element i on, run
\* until it returns to the event loop.  st.result: "ok" (cb(null) invoked),
\* "throw" (the iteratee threw through it), "pending" (writes outstanding).
\* st.log lists the iteratee's invocations: element index, element, outcome.
RECURSIVE eachLimit(_, _, _, _)
eachLimit(tasks, limit, i, st) ==
    IF limit <= 0 THEN [st EXCEPT !.result = "ok"]
    ELSE IF i > Len(tasks)
    THEN [st EXCEPT !.result = IF st.running = 0 THEN "ok" ELSE "pending"]
    ELSE IF st.running >= limit THEN st
    ELSE LET r == executeTaskOnS3(bucket, tasks[i])
             logged == [st EXCEPT !.log = Append(st.log,
                            [idx |-> i, task |-> tasks[i], outcome |-> r.outcome])]
         IN CASE r.outcome = "done"   -> eachLimit(tasks, limit, i + 1, logged)
              [] r.outcome = "throw"  -> [logged EXCEPT !.result = "throw"]
              [] r.outcome = "upload" ->
                   eachLimit(tasks, limit, i + 1,
                             [logged EXCEPT !.running = st.running + 1,
                                            !.ups = st.ups \o r.req])

RunUpload(tasks) ==
    eachLimit(tasks, MAX_PARALLEL, 1,
              [running |-> 0, log |-> <<>>, ups |-> <<>>, result |-> "pending"])

Init ==
    /\ bucket \in BucketNames
    /\ policyReqs = <<>>
    /\ started = FALSE
    /\ policyPending = FALSE
    /\ policyCalls = 0
    /\ policyCb = <<>>
    /\ globPending = FALSE
    /\ globCalls = 0
    /\ globRet = "none"
    /\ entries = <<>>
    /\ next = 0
    /\ statRunning = {}
    /\ lost = {}
    /\ results = <<>>
    /\ statCalls = <<>>
    /\ planCb = <<>>
    /\ dispatched = <<>>
    /\ uploads = <<>>
    /\ execCb = <<>>
    /\ uploadCb = <<>>
    /\ doneCalls = <<>>
    /\ thrown = <<>>
    /\ halted = FALSE

(***************************************************************************)
(* Callbacks, innermost first.  Each definition is the part of a handler   *)
(* that one function of lib.js contributes.                                *)
(***************************************************************************)

\* s3WebsiteFromDirectory, lines 150-153: the callback given to uploadDirToS3.
s3WebsiteFromDirectoryUploadCb(err) ==
    doneCalls' = IF err # NoErr THEN Append(doneCalls, err) ELSE doneCalls

\* uploadDirToS3, lines 130-136: the callback given to buildLocalExecutionPlan,
\* with async.eachLimit run until it returns.
uploadDirToS3Cb(err, tasks) ==
    /\ planCb' = Append(planCb, [err |-> err, tasks |-> tasks])
    /\ IF err # NoErr
       THEN /\ uploadCb' = Append(uploadCb, err)
            /\ s3WebsiteFromDirectoryUploadCb(err)
            /\ UNCHANGED <<dispatched, uploads, execCb, thrown, halted>>
       ELSE LET r == RunUpload(tasks)
            IN /\ dispatched' = r.log
               /\ uploads' = r.ups
               /\ CASE r.result = "throw" ->
                         /\ thrown' = Append(thrown, "TypeError")
                         /\ halted' \in BOOLEAN
                         /\ UNCHANGED <<execCb, uploadCb, doneCalls>>
                    [] r.result = "ok" ->
                         /\ execCb' = Append(execCb, NoErr)
                         /\ uploadCb' = Append(uploadCb, NoErr)
                         /\ s3WebsiteFromDirectoryUploadCb(NoErr)
                         /\ UNCHANGED <<thrown, halted>>
                    [] r.result = "pending" ->
                         UNCHANGED <<execCb, uploadCb, doneCalls, thrown, halted>>

\* async.mapLimit starting every element at once.
mapLimitStart_All(n, limit) == n

\* async.mapLimit(paths, limit, ...): how many elements its first pass hands
\* to the iteratee (every lstat calls back later, so the pass stops at limit).
mapLimitStart(n, limit) == IF n < limit THEN n ELSE limit

\* async.mapLimit storing a value at the next free position (arrival order).
mapLimitStore_Push(res, i, v) ==
    [res EXCEPT ![next - Cardinality(statRunning) - Cardinality(lost) + 1] = v]

\* async.mapLimit storing the value the iteratee delivered for element i.
mapLimitStore(res, i, v) == [res EXCEPT ![i] = v]

\* The glob callback without the test of line 39.
buildLocalExecutionPlanCb_NoErrCheck(err, es) ==
    /\ globRet' = IF err # NoErr THEN err ELSE "ok"
    /\ entries' = es
    /\ results' = [i \in 1..Len(es) |-> undefined]
    /\ next' = mapLimitStart(Len(es), MAX_PARALLEL)
    /\ statRunning' = 1..next'
    /\ statCalls' = [i \in 1..next' |-> i]
    /\ UNCHANGED lost
    /\ IF Len(es) = 0
       THEN uploadDirToS3Cb(NoErr, <<>>)
       ELSE UNCHANGED upVars

\* buildLocalExecutionPlan, lines 38-42: glob's callback; async.mapLimit
\* starts lstat on the first MAX_PARALLEL paths (all of them call back later).
buildLocalExecutionPlanCb(err, es) ==
    IF err # NoErr
    THEN /\ globRet' = err
         /\ uploadDirToS3Cb(err, <<>>)
         /\ UNCHANGED planVars
    ELSE /\ globRet' = "ok"
         /\ entries' = es
         /\ results' = [i \in 1..Len(es) |-> undefined]
         /\ next' = mapLimitStart(Len(es), MAX_PARALLEL)
         /\ statRunning' = 1..next'
         /\ statCalls' = [i \in 1..next' |-> i]
         /\ UNCHANGED lost
         /\ IF Len(es) = 0
            THEN uploadDirToS3Cb(NoErr, <<>>)
            ELSE UNCHANGED upVars

\* uploadDirToS3 -> buildLocalExecutionPlan, lines 129-130 and 35-38: glob is called.
uploadDirToS3 ==
    /\ globCalls' = globCalls + 1
    /\ globPending' = TRUE

\* createAnonReadStatement with the two resource patterns in the other order.
createAnonReadStatement_Swapped(b) ==
    [Version |-> "2012-10-17",
     Statement |-> <<[Sid |-> "AddPerm", Effect |-> "Allow", Principal |-> "*",
                      Action |-> <<"s3:GetObject">>,
                      Resource |-> <<"arn:aws:s3:::" \o b \o "/**/*",
                                     "arn:aws:s3:::" \o b \o "/*">>]>>]

\* createAnonReadStatement, lines 74-92
createAnonReadStatement(b) ==
    [Version |-> "2012-10-17",
     Statement |-> <<[Sid |-> "AddPerm", Effect |-> "Allow", Principal |-> "*",
                      Action |-> <<"s3:GetObject">>,
                      Resource |-> <<"arn:aws:s3:::" \o b \o "/*",
                                     "arn:aws:s3:::" \o b \o "/**/*">>]>>]

\* JSON.stringify and its inverse: the text is kept as a tagged value, which
\* is no policy document until it is parsed.
JSONstringify(v) == [json |-> v]
JSONparse(t) == t.json

\* createAnonReadPolicy, lines 99-104
createAnonReadPolicy(b) ==
    [Bucket |-> b, Policy |-> JSONstringify(createAnonReadStatement(b))]

\* configureWebsiteBucket, lines 112-113: the policy call is issued.
configureWebsiteBucket ==
    /\ policyCalls' = policyCalls + 1
    /\ policyReqs' = Append(policyReqs, createAnonReadPolicy(bucket))
    /\ policyPending' = TRUE

\* The policy callback without the `return` of line 149: done(err) is
\* called and the upload is started all the same.
configureWebsiteBucketCb_Fallthrough(err) ==
    /\ policyCb' = Append(policyCb, err)
    /\ policyPending' = FALSE
    /\ UNCHANGED <<policyCalls, policyReqs>>
    /\ doneCalls' = IF err # NoErr THEN Append(doneCalls, err) ELSE doneCalls
    /\ uploadDirToS3

\* The policy callback retrying the policy call when it failed.
configureWebsiteBucketCb_Retry(err) ==
    /\ policyCb' = Append(policyCb, err)
    /\ IF err # NoErr
       THEN /\ configureWebsiteBucket
            /\ UNCHANGED <<doneCalls, globCalls, globPending>>
       ELSE /\ policyPending' = FALSE
            /\ UNCHANGED <<policyCalls, policyReqs, doneCalls>>
            /\ uploadDirToS3

\* lines 113-118 and 148-150: putBucketPolicy's callback, through
\* configureWebsiteBucket's done into s3WebsiteFromDirectory.
configureWebsiteBucketCb(err) ==
    /\ policyCb' = Append(policyCb, err)
    /\ policyPending' = FALSE
    /\ UNCHANGED <<policyCalls, policyReqs>>
    /\ IF err # NoErr
       THEN /\ doneCalls' = Append(doneCalls, err)
            /\ UNCHANGED <<globCalls, globPending>>
       ELSE /\ uploadDirToS3
            /\ UNCHANGED doneCalls

(***************************************************************************)
(* Actions: one per callback of the event loop.                            *)
(***************************************************************************)

\* s3WebsiteFromDirectory starting the upload next to the policy call
\* instead of inside its callback.
s3WebsiteFromDirectory_NoWait ==
    /\ ~started
    /\ started' = TRUE
    /\ configureWebsiteBucket
    /\ uploadDirToS3
    /\ UNCHANGED <<bucket, policyCb, globRet>>
    /\ UNCHANGED planVars
    /\ UNCHANGED upVars

\* The caller calls s3WebsiteFromDirectory (line 147).
s3WebsiteFromDirectory ==
    /\ ~started
    /\ started' = TRUE
    /\ configureWebsiteBucket
    /\ UNCHANGED <<bucket, policyCb, globPending, globCalls, globRet>>
    /\ UNCHANGED planVars
    /\ UNCHANGED upVars

\* s3.putBucketPolicy calls back.
PolicyReturn ==
    /\ policyPending /\ ~halted
    /\ \E err \in {NoErr, "PolicyError"} : configureWebsiteBucketCb(err)
    /\ UNCHANGED <<bucket, started, globRet>>
    /\ UNCHANGED planVars
    /\ UNCHANGED <<planCb, dispatched, uploads, execCb, uploadCb, thrown, halted>>

\* glob calls back, with an error or with the matched paths.
GlobReturn ==
    /\ globPending /\ ~halted
    /\ globPending' = FALSE
    /\ \/ buildLocalExecutionPlanCb("GlobError", <<>>)
       \/ \E es \in GlobResults : buildLocalExecutionPlanCb(NoErr, es)
    /\ UNCHANGED <<bucket, started, policyPending, policyCalls, policyReqs,
                   policyCb, globCalls>>

\* fs.lstat of entry i calls back: makeLocalTask's callback, then
\* async.mapLimit's bookkeeping (store the value, start the next lstat, or
\* deliver the results once nothing is running).
StatReturn(i) ==
    /\ i \in statRunning /\ ~halted
    /\ Cardinality({j \in statRunning : j < i}) <= MaxOvertake
    /\ LET r == makeLocalTask(rootPath, entries[i])
           rest == statRunning \ {i}
       IN IF r.threw
          THEN /\ statRunning' = rest
               /\ lost' = lost \cup {i}
               /\ thrown' = Append(thrown, "TypeError")
               /\ halted' \in BOOLEAN
               /\ UNCHANGED <<results, next, statCalls>>
               /\ UNCHANGED <<planCb, dispatched, uploads, execCb, uploadCb, doneCalls>>
          ELSE /\ results' = mapLimitStore(results, i, r.val)
               /\ UNCHANGED lost
               /\ IF next < Len(entries)
                  THEN /\ next' = next + 1
                       /\ statRunning' = rest \cup {next + 1}
                       /\ statCalls' = Append(statCalls, next + 1)
                       /\ UNCHANGED upVars
                  ELSE /\ statRunning' = rest
                       /\ UNCHANGED <<next, statCalls>>
                       /\ IF rest = {} /\ lost = {}
                          THEN uploadDirToS3Cb(NoErr, results')
                          ELSE UNCHANGED upVars
    /\ UNCHANGED <<bucket, started, policyPending, policyCalls, policyReqs,
                   policyCb, globPending, globCalls, globRet, entries>>

Next ==
    \/ s3WebsiteFromDirectory
    \/ PolicyReturn
    \/ GlobReturn
    \/ \E i \in 1..MaxPaths : StatReturn(i)

Spec == Init /\ [][Next]_vars

(***************************************************************************)
(* Properties.                                                             *)
(***************************************************************************)
Returned == (1..next) \ statRunning
StatFailed == \E i \in Returned : entries[i].kind = "gone"
Files == {i \in 1..Len(entries) : entries[i].kind = "file"}
PlanDelivered == Len(planCb) = 1 /\ planCb[1].err = NoErr
Quiescent == started /\ ~policyPending /\ ~globPending /\ statRunning = {}
WriteFailed(k) == dispatched[k].outcome = "throw"
IsRootTask(t) == t.type = "file" /\ t.remotePath = <<>>

\* C2: once the write of a task has failed, the executor has reported that
\* failure to its caller: async.eachLimit's callback and uploadDirToS3's done
\* have been invoked once, with that error, and no later task was dispatched.
C2_FirstFailureReported ==
    (\E k \in 1..Len(dispatched) : WriteFailed(k)) =>
        /\ execCb = <<"TypeError">>
        /\ uploadCb = <<"TypeError">>
        /\ WriteFailed(Len(dispatched))

\* C3: a run in which the policy call, the glob, every stat and every write
\* succeeded and nothing is outstanding has invoked the caller's done once,
\* without an error.
C3_SuccessSurfaced ==
    (/\ Quiescent
     /\ policyCb = <<NoErr>>
     /\ globRet = "ok"
     /\ \A i \in 1..Len(entries) : entries[i].kind # "gone") =>
        doneCalls = <<NoErr>>

\* C4: the phases are ordered publish -> plan -> upload: glob and lstat are
\* called only after the policy call returned success, lstat only after glob
\* returned, and executeTaskOnS3 (hence s3.upload) only when no lstat is
\* outstanding and the complete list, one element per matched path, has been
\* delivered.
C4_PhasesOrdered ==
    /\ (globCalls > 0 \/ statCalls # <<>>) => policyCb = <<NoErr>>
    /\ statCalls # <<>> => globRet = "ok"
    /\ (dispatched # <<>> \/ uploads # <<>>) =>
          /\ statRunning = {}
          /\ PlanDelivered
          /\ Len(planCb[1].tasks) = Len(entries)
          /\ Len(statCalls) = Len(entries)

C4_Witness == dispatched # <<>> /\ Len(statCalls) > MAX_PARALLEL

\* C5: when the policy call returned an error, that error is what the caller's
\* done was given, and no glob, lstat, executeTaskOnS3 or s3.upload was started.
C5_PolicyErrorAborts ==
    (policyCb # <<>> /\ policyCb[1] # NoErr) =>
        /\ doneCalls = <<policyCb[1]>>
        /\ globCalls = 0
        /\ statCalls = <<>>
        /\ dispatched = <<>>
        /\ uploads = <<>>

C5_Witness == policyCb = <<"PolicyError">> /\ ~policyPending

C7_StatFailureReported ==
    StatFailed => (Len(planCb) = 1 /\ planCb[1].err = "StatError")

\* C8: once plan building has failed (glob or lstat returned an error) after
\* the policy was set, the caller's done has been given that error, no write
\* was started and the policy call was not followed by another one.
C8_PlanFailureAborts ==
    (policyCb = <<NoErr>> /\ (globRet = "GlobError" \/ StatFailed)) =>
        /\ doneCalls = <<IF globRet = "GlobError" THEN "GlobError" ELSE "StatError">>
        /\ dispatched = <<>>
        /\ uploads = <<>>
        /\ policyCalls = 1

\* C9: executeTaskOnS3 completes a task whose remotePath is empty by calling
\* done() at once, and no s3.upload call has an empty Key.
C9_RootNeverWritten ==
    /\ \A k \in 1..Len(dispatched) :
          IsRootTask(dispatched[k].task) => dispatched[k].outcome = "done"
    /\ \A k \in 1..Len(uploads) : uploads[k].Key # <<>>

C9_Witness == \E k \in 1..Len(dispatched) : IsRootTask(dispatched[k].task)

\* C10: a run issues exactly one set-bucket-policy call, whatever the calls
\* return.
C10_OnePolicyCall == policyCalls = (IF started THEN 1 ELSE 0)

C10_Witness == policyCalls = 1 /\ Quiescent /\ policyCb = <<NoErr>> /\ planCb # <<>>

\* C11: the policy sent for bucket b names b as Bucket, and its document,
\* once parsed, has a single statement whose Resource is exactly
\* <<"arn:aws:s3:::b/*", "arn:aws:s3:::b/**/*">> in that order and whose
\* Action is exactly <<"s3:GetObject">>.
C11_PolicyDocument ==
    \A k \in 1..Len(policyReqs) :
        LET doc == JSONparse(policyReqs[k].Policy)
        IN /\ policyReqs[k].Bucket = bucket
           /\ Len(doc.Statement) = 1
           /\ doc.Statement[1].Action = <<"s3:GetObject">>
           /\ doc.Statement[1].Resource =
                 IF bucket = "my-bucket"
                 THEN <<"arn:aws:s3:::my-bucket/*", "arn:aws:s3:::my-bucket/**/*">>
                 ELSE <<"arn:aws:s3:::b/*", "arn:aws:s3:::b/**/*">>

C11_Witness == Len(policyReqs) = 1 /\ bucket = "my-bucket"

NoCollaboratorFailed ==
    /\ policyCb = <<NoErr>>
    /\ globRet = "ok"
    /\ \A i \in 1..Len(entries) : entries[i].kind # "gone"

\* The s3.upload request the claim describes for task t.
UploadRequest(t) ==
    [Bucket |-> bucket, Key |-> t.remotePath, ACL |-> "public-read",
     ContentType |-> mimeLookup(t.localPath), Body |-> [readStream |-> t.localPath]]

\* C12: in a run where no collaborator call failed and nothing is outstanding,
\* every task of the plan with a non-empty remotePath has had its s3.upload
\* call issued, with Bucket, Key, ACL, ContentType and Body as described.
C12_EveryTaskUploaded ==
    (Quiescent /\ NoCollaboratorFailed /\ PlanDelivered) =>
        \A i \in 1..Len(planCb[1].tasks) :
            LET t == planCb[1].tasks[i]
            IN (t # undefined /\ t.remotePath # <<>>) =>
                  \E k \in 1..Len(uploads) : uploads[k] = UploadRequest(t)

\* C13: the value stored for the i-th matched path is the one made from that
\* path, whatever the order in which the lstat calls came back, and the
\* delivered sequence is that array.
C13_MatchOrder ==
    /\ \A i \in Returned \ lost :
          IF entries[i].kind = "file"
          THEN results[i].type = "file" /\ results[i].localPath = entries[i].path
          ELSE results[i] = undefined
    /\ PlanDelivered => planCb[1].tasks = results

C13_Witness ==
    \E i \in Returned \ lost : \E j \in statRunning :
        j < i /\ entries[i].kind = "file" /\ results[i].localPath = entries[i].path

\* C14: when glob returned an error, buildLocalExecutionPlan's done was
\* invoked once, with exactly that error and no plan, and no lstat was started.
C14_GlobErrorReported ==
    (globRet # "none" /\ globRet # "ok") =>
        /\ Len(planCb) = 1
        /\ planCb[1].err = globRet
        /\ planCb[1].tasks = <<>>
        /\ statCalls = <<>>

C14_Witness == globRet = "GlobError" /\ planCb # <<>>

\* C15: the number of lstat calls started and not yet called back never
\* exceeds MAX_PARALLEL.
C15_StatBound == Cardinality(statRunning) <= MAX_PARALLEL

C15_Witness ==
    /\ Cardinality(statRunning) = MAX_PARALLEL
    /\ next > MAX_PARALLEL
    /\ next < Len(entries)

\* C16: a batch in which a write failed and nothing is outstanding any more
\* has had the executor's completion callback invoked exactly once.
C16_OneReportPerBatch ==
    (Quiescent /\ \E k \in 1..Len(dispatched) : WriteFailed(k)) =>
        (Len(execCb) = 1 /\ Len(uploadCb) = 1)

\* C17: no retries: no matched path has lstat called on it twice, no element
\* of the plan is handed to executeTaskOnS3 twice, and there are no more
\* s3.upload calls than elements handed over.
C17_NoRetries ==
    /\ Cardinality({statCalls[a] : a \in 1..Len(statCalls)}) = Len(statCalls)
    /\ Cardinality({dispatched[a].idx : a \in 1..Len(dispatched)}) = Len(dispatched)
    /\ Len(uploads) <= Len(dispatched)

C17_Witness ==
    /\ thrown # <<>>
    /\ Len(statCalls) > MAX_PARALLEL
    /\ \E k \in 1..Len(dispatched) : WriteFailed(k)

\* C18: in a run where no collaborator call failed and nothing is outstanding,
\* every element of the plan has been dispatched and uploadDirToS3's done has
\* been invoked once, with success.
C18_UploadCompletes ==
    (Quiescent /\ NoCollaboratorFailed /\ PlanDelivered) =>
        /\ Len(dispatched) = Len(planCb[1].tasks)
        /\ uploadCb = <<NoErr>>

\* C19: the element made for a matched entry that is not a regular file is
\* completed by executeTaskOnS3 with done() and no s3.upload call: every
\* s3.upload call reads a matched regular file.
C19_NonFilesNeverWritten ==
    /\ \A k \in 1..Len(dispatched) :
          entries[dispatched[k].idx].kind # "file" => dispatched[k].outcome = "done"
    /\ \A k \in 1..Len(uploads) :
          \E i \in Files : uploads[k].Body = [readStream |-> entries[i].path]

C19_Witness ==
    \E k \in 1..Len(dispatched) :
        entries[dispatched[k].idx].kind = "dir" /\ dispatched[k].task = undefined

\* C20: the caller's done is invoked at most once, and in no step taken after
\* it was invoked with an error is a policy call, glob, lstat, executeTaskOnS3
\* or s3.upload started.
C20_DoneOnceThenNothing ==
    /\ [](Len(doneCalls) <= 1)
    /\ [][(doneCalls # <<>> /\ doneCalls[1] # NoErr) =>
            /\ policyCalls' = policyCalls
            /\ globCalls' = globCalls
            /\ statCalls' = statCalls
            /\ dispatched' = dispatched
            /\ uploads' = uploads]_vars

C20_Witness == doneCalls = <<"GlobError">>

====
